---------------------------- MODULE Spec2Model ----------------------------
(***************************************************************************)
(* A model of tracer (src/tracer.cpp): the loader of the UPPAAL            *)
(* intermediate format (loadIF), the XTR trace reader (State, Transition,  *)
(* loadTrace), the two printers (operator<<) and main.                     *)
(*                                                                         *)
(* The model file is a sequence of lines.  A line is a record              *)
(*     [k |-> kind, n |-> numbers, name |-> word, text |-> characters]     *)
(* that stands for the canonical text of its kind ("0:clock:1:x" is        *)
(* [k |-> "clock", n |-> <<0, 1>>, name |-> "x"]).  In the place of a      *)
(* record the files hold records of the section's own kinds, section       *)
(* names, blank, indented, tab-indented, comment and junk lines.           *)
(*                                                                         *)
(* The trace file is a sequence of tokens [k |-> kind, v |-> value]: a     *)
(* number ("int"), a space ("sp"), a tab ("tab"), a line break ("nl"),     *)
(* ";" ("semi"), "." ("dot") and any other character ("x").                *)
(*                                                                         *)
(* Vectors are 1-based sequences here and 0-based in the source: element   *)
(* i of the source is element i + 1 of the model.                          *)
(***************************************************************************)
EXTENDS Integers, Sequences, FiniteSets, TLC

VARIABLES
    inputs,         \* the family of input files this run draws from
    pc,             \* position in main / loadIF / loadTrace
    outcome,        \* "running", "returned", "caught", "exit", "abort", "crash"
    what,           \* message of the exception in flight or caught
    ub,             \* an access outside a vector has happened (undefined behaviour)
    file,           \* model stream: the lines not yet read
    section,        \* loadIF: the section being read
    cell,           \* loadIF: the local cell_t of the layout section
    layout, instructions, processes, edges, expressions,
    processCount, variableCount, clockCount,
    clocks, variables,
    is,             \* trace stream: [buf |-> tokens not yet read, fail |-> failbit]
    iter,           \* loadTrace: 0 for the initial state, k in loop iteration k
    st,             \* the State under construction / last constructed
    tr,             \* the Transition under construction / last constructed
    cout,           \* text written to standard output, in fragments
    log,            \* history: what was read and printed, with its iteration
    src             \* history: the records read from the files, as given

vars == <<inputs, pc, outcome, what, ub, file, section, cell, layout,
          instructions, processes, edges, expressions, processCount,
          variableCount, clockCount, clocks, variables, is, iter, st, tr,
          cout, log, src>>

model == <<layout, instructions, processes, edges, expressions, processCount,
           variableCount, clockCount, clocks, variables>>

-----------------------------------------------------------------------------
(* Lines of the model file.                                                *)

Line(k, n, name, text) == [k |-> k, n |-> n, name |-> name, text |-> text]

Header(s)      == Line("header", <<>>, s, <<>>)
Blank          == Line("blank", <<>>, "", <<>>)
Indented       == Line("indent", <<>>, "", <<>>)
TabLine        == Line("tab", <<>>, "", <<>>)
Comment        == Line("comment", <<>>, "", <<>>)
Junk           == Line("junk", <<>>, "", <<>>)
ClockLine(i, nr, s)              == Line("clock", <<i, nr>>, s, <<>>)
ConstLine(i, v)                  == Line("const", <<i, v>>, "", <<>>)
VarLine(i, mn, mx, init, nr, s)  == Line("var", <<i, mn, mx, init, nr>>, s, <<>>)
MetaLine(i, mn, mx, init, nr, s) == Line("meta", <<i, mn, mx, init, nr>>, s, <<>>)
SysMetaLine(i, mn, mx, s)        == Line("sys_meta", <<i, mn, mx>>, s, <<>>)
LocationLine(i, flag, s)         == Line(flag, <<i>>, s, <<>>)
StaticLine(i, mn, mx, s)         == Line("static", <<i, mn, mx>>, s, <<>>)
CostLine(i)                      == Line("cost", <<i>>, "", <<>>)
InstrLine(addr, words)           == Line("instr", <<addr>> \o words, "", <<>>)
ProcessLine(i, initial, s)       == Line("process", <<i, initial>>, s, <<>>)
LocRecLine(i, p, inv)            == Line("locrec", <<i, p, inv>>, "", <<>>)
EdgeLine(p, s, t, g, y, u)       == Line("edge", <<p, s, t, g, y, u>>, "", <<>>)
ExprLine(i, text)                == Line("expr", <<i>>, "", text)

SectionNames ==
    {"layout", "instructions", "processes", "locations", "edges", "expressions"}

(* isspace of <cctype> on the characters of the model.                     *)
SpaceChars == {" ", "\t"}

-----------------------------------------------------------------------------
(* tracer.cpp:153-161.  read: the next line that is no comment.            *)

RECURSIVE SkipComments(_)
SkipComments(f) ==
    IF f # <<>> /\ Head(f).k = "comment" THEN SkipComments(Tail(f)) ELSE f

read(f) ==
    LET g == SkipComments(f) IN
    IF g = <<>> THEN [ok |-> FALSE, str |-> Blank, file |-> <<>>]
    ELSE [ok |-> TRUE, str |-> Head(g), file |-> Tail(g)]

(* The record loops' condition: !str.empty() && isspace(str[0]) == 0,      *)
(* and in the instructions section also str[0] == '\t'.                    *)
MoreRecords(r, sec) ==
    /\ r.ok
    /\ r.str.k # "blank"
    /\ r.str.k # "indent"
    /\ (r.str.k = "tab" => sec = "instructions")

(* What an access outside a vector can do: stop the process, or go on      *)
(* with memory outside the vector read or written.                         *)
UBOutcomes == {"crash", "stray"}

(* The words of cell_t's anonymous union: value, clock.nr, var.min,        *)
(* location.flags share word 1; var.max, location.process word 2;          *)
(* var.init, location.invariant word 3; var.nr word 4.                     *)
IndeterminateInts == {0, 85}

(* No cell_t is in scope outside the layout section.                       *)
NoCell == [type |-> "none", name |-> "", w |-> <<0, 0, 0, 0>>]

FLAGS(k) == CASE k = "location" -> 0 [] k = "committed" -> 1 [] k = "urgent" -> 2

RecordKinds(sec) ==
    CASE sec = "layout" -> {"clock", "const", "var", "meta", "sys_meta", "location",
                            "committed", "urgent", "static", "cost"}
      [] sec = "instructions" -> {"instr"}
      [] sec = "processes" -> {"process"}
      [] sec = "locations" -> {"locrec"}
      [] sec = "edges" -> {"edge"}
      [] sec = "expressions" -> {"expr"}

-----------------------------------------------------------------------------
(* tracer.cpp:186-354.  loadIF.                                            *)

(* An entry of the history src: a line as it was read, whether as a       *)
(* section line or as a record, and whether what it refers to existed      *)
(* when it was read.                                                       *)
Given(line, as, valid) == [line |-> line, as |-> as, valid |-> valid]

(* loadIF going on with the next section line where the source throws.     *)
SkipSection(msg) ==
    /\ pc' = "loadIF"
    /\ what' = msg

(* throw invalid_format(msg): loadIF is left for main's handler.           *)
Throw(msg) ==
    /\ pc' = "catch"
    /\ what' = msg

(* tracer.cpp:193-194, 350-353: the section line.                          *)
loadIF_section ==
    /\ pc = "loadIF"
    /\ outcome = "running"
    /\ IF file = <<>>
       THEN /\ pc' = "loadTrace"
            /\ UNCHANGED <<what, file, section, cell, src>>
       ELSE /\ file' = Tail(file)
            /\ src' = Append(src, Given(Head(file), "section", TRUE))
            /\ IF Head(file).k = "header" /\ Head(file).name \in SectionNames
               THEN /\ section' = Head(file).name
                    /\ pc' = "records"
                    /\ IF Head(file).name = "layout"
                       THEN \E g \in IndeterminateInts :
                               cell' = [type |-> "indeterminate", name |-> "",
                                        w |-> <<g, g, g, g>>]
                       ELSE cell' = NoCell
                    /\ UNCHANGED what
               ELSE /\ Throw("Unknown section")
                    /\ UNCHANGED <<section, cell>>
    /\ UNCHANGED <<inputs, outcome, ub, model, is, iter, st, tr, cout, log>>

EndOfRecords(r) ==
    /\ pc' = "loadIF"
    /\ file' = r.file

(* tracer.cpp:194-245: one line of the layout section.                     *)
LayoutCell(c, str) ==
    LET k == str.k
        n == str.n IN
    CASE k = "clock" ->
           [type |-> "CLOCK", name |-> str.name, w |-> [c.w EXCEPT ![1] = n[2]]]
      [] k = "const" ->
           [c EXCEPT !.type = "CONST", !.w[1] = n[2]]
      [] k \in {"var", "meta"} ->
           [type |-> IF k = "var" THEN "VAR" ELSE "META", name |-> str.name,
            w |-> <<n[2], n[3], n[4], n[5]>>]
      [] k = "sys_meta" ->
           [type |-> "SYS_META", name |-> str.name,
            w |-> [c.w EXCEPT ![1] = n[2], ![2] = n[3]]]
      [] k \in {"location", "committed", "urgent"} ->
           [type |-> "LOCATION", name |-> str.name, w |-> [c.w EXCEPT ![1] = FLAGS(k)]]
      [] k = "static" ->
           [type |-> "FIXED", name |-> str.name,
            w |-> [c.w EXCEPT ![1] = n[2], ![2] = n[3]]]
      [] k = "cost" ->
           [c EXCEPT !.type = "COST"]

loadIF_layout ==
    /\ pc = "records"
    /\ section = "layout"
    /\ LET r == read(file) IN
       IF ~MoreRecords(r, section)
       THEN /\ EndOfRecords(r)
            /\ cell' = NoCell
            /\ UNCHANGED <<what, layout, clocks, clockCount, variables,
                           variableCount, src>>
       ELSE IF r.str.k \notin RecordKinds("layout")
       THEN /\ Throw("layout line")
            /\ file' = r.file
            /\ UNCHANGED <<cell, layout, clocks, clockCount, variables,
                           variableCount, src>>
       ELSE LET c == LayoutCell(cell, r.str) IN
            /\ file' = r.file
            /\ cell' = c
            /\ layout' = Append(layout, c)
            /\ clocks' = IF r.str.k = "clock" THEN Append(clocks, r.str.name) ELSE clocks
            /\ clockCount' = IF r.str.k = "clock" THEN clockCount + 1 ELSE clockCount
            /\ variables' = IF r.str.k \in {"var", "meta"}
                            THEN Append(variables, r.str.name) ELSE variables
            /\ variableCount' = IF r.str.k \in {"var", "meta"}
                                THEN variableCount + 1 ELSE variableCount
            /\ src' = Append(src, Given(r.str, "record", TRUE))
            /\ UNCHANGED <<pc, what>>
    /\ UNCHANGED <<inputs, outcome, ub, section, instructions, processes, edges,
                   expressions, processCount, is, iter, st, tr, cout, log>>

(* tracer.cpp:271-286: one line of the instructions section.               *)
loadIF_instructions ==
    /\ pc = "records"
    /\ section = "instructions"
    /\ LET r == read(file) IN
       IF ~MoreRecords(r, section)
       THEN /\ EndOfRecords(r)
            /\ UNCHANGED <<what, instructions>>
       ELSE IF r.str.k = "tab"
       THEN /\ file' = r.file
            /\ UNCHANGED <<pc, what, instructions>>
       ELSE IF r.str.k # "instr" \/ Len(r.str.n) < 2
       THEN /\ Throw("In instruction section")
            /\ file' = r.file
            /\ UNCHANGED instructions
       ELSE /\ file' = r.file
            /\ instructions' = instructions \o Tail(r.str.n)
            /\ UNCHANGED <<pc, what>>
    /\ UNCHANGED <<inputs, outcome, ub, section, cell, layout, processes, edges,
                   expressions, processCount, variableCount, clockCount, clocks,
                   variables, is, iter, st, tr, cout, log, src>>

(* tracer.cpp:287-296: one line of the processes section.                  *)
loadIF_processes ==
    /\ pc = "records"
    /\ section = "processes"
    /\ LET r == read(file) IN
       IF ~MoreRecords(r, section)
       THEN /\ EndOfRecords(r)
            /\ UNCHANGED <<what, processes, processCount>>
       ELSE IF r.str.k # "process"
       THEN /\ Throw("In process section")
            /\ file' = r.file
            /\ UNCHANGED <<processes, processCount>>
       ELSE /\ file' = r.file
            /\ processes' = Append(processes,
                   [initial |-> r.str.n[2], name |-> r.str.name,
                    locations |-> <<>>, edges |-> <<>>])
            /\ processCount' = processCount + 1
            /\ UNCHANGED <<pc, what>>
    /\ UNCHANGED <<inputs, outcome, ub, section, cell, layout, instructions, edges,
                   expressions, variableCount, clockCount, clocks, variables, is,
                   iter, st, tr, cout, log, src>>

(* tracer.cpp:297-309: one line of the locations section.  layout[index]   *)
(* and processes[process] are not range-checked, and the cell's type is    *)
(* not looked at: the two words are written through the union.             *)
InVector(i, v) == 0 <= i /\ i < Len(v)

PatchLocation(lay, index, process, invariant) ==
    [lay EXCEPT ![index + 1].w[2] = process, ![index + 1].w[3] = invariant]

(* PushLocation putting the index in front of the list.                    *)
PushLocationFront(procs, process, index) ==
    [procs EXCEPT ![process + 1].locations = <<index>> \o @]

PushLocation(procs, process, index) ==
    [procs EXCEPT ![process + 1].locations = Append(@, index)]

loadIF_locations ==
    /\ pc = "records"
    /\ section = "locations"
    /\ LET r == read(file) IN
       IF ~MoreRecords(r, section)
       THEN /\ EndOfRecords(r)
            /\ UNCHANGED <<outcome, what, ub, layout, processes, src>>
       ELSE IF r.str.k # "locrec"
       THEN /\ Throw("In location section")
            /\ file' = r.file
            /\ UNCHANGED <<outcome, ub, layout, processes, src>>
       ELSE LET index     == r.str.n[1]
                process   == r.str.n[2]
                invariant == r.str.n[3]
                cellOK    == InVector(index, layout)
                procOK    == InVector(process, processes) IN
            /\ file' = r.file
            /\ src' = Append(src, Given(r.str, "record",
                                        /\ cellOK
                                        /\ procOK
                                        /\ layout[index + 1].type = "LOCATION"))
            /\ UNCHANGED what
            /\ IF cellOK /\ procOK
               THEN /\ layout' = PatchLocation(layout, index, process, invariant)
                    /\ processes' = PushLocation(processes, process, index)
                    /\ UNCHANGED <<pc, outcome, ub>>
               ELSE \E o \in UBOutcomes :
                    /\ ub' = TRUE
                    /\ IF o = "crash"
                       THEN /\ outcome' = "crash"
                            /\ pc' = "done"
                            /\ UNCHANGED <<layout, processes>>
                       ELSE /\ layout' = IF cellOK
                                         THEN PatchLocation(layout, index, process, invariant)
                                         ELSE layout
                            /\ processes' = IF procOK
                                            THEN PushLocation(processes, process, index)
                                            ELSE processes
                            /\ UNCHANGED <<pc, outcome>>
    /\ UNCHANGED <<inputs, section, cell, instructions, edges, expressions,
                   processCount, variableCount, clockCount, clocks, variables, is,
                   iter, st, tr, cout, log>>

(* tracer.cpp:310-321: one line of the edges section.                      *)
PushEdge(procs, process, eid) ==
    [procs EXCEPT ![process + 1].edges = Append(@, eid)]

loadIF_edges ==
    /\ pc = "records"
    /\ section = "edges"
    /\ LET r == read(file) IN
       IF ~MoreRecords(r, section)
       THEN /\ EndOfRecords(r)
            /\ UNCHANGED <<outcome, what, ub, edges, processes, src>>
       ELSE IF r.str.k # "edge"
       THEN /\ Throw("In edge section")
            /\ file' = r.file
            /\ UNCHANGED <<outcome, ub, edges, processes, src>>
       ELSE LET n    == r.str.n
                edge == [process |-> n[1], source |-> n[2], target |-> n[3],
                         guard |-> n[4], sync |-> n[5], update |-> n[6]] IN
            /\ file' = r.file
            /\ src' = Append(src, Given(r.str, "record",
                                        InVector(edge.process, processes)))
            /\ UNCHANGED what
            /\ IF InVector(edge.process, processes)
               THEN /\ processes' = PushEdge(processes, edge.process, Len(edges))
                    /\ edges' = Append(edges, edge)
                    /\ UNCHANGED <<pc, outcome, ub>>
               ELSE \E o \in UBOutcomes :
                    /\ ub' = TRUE
                    /\ UNCHANGED processes
                    /\ IF o = "crash"
                       THEN /\ outcome' = "crash"
                            /\ pc' = "done"
                            /\ UNCHANGED edges
                       ELSE /\ edges' = Append(edges, edge)
                            /\ UNCHANGED <<pc, outcome>>
    /\ UNCHANGED <<inputs, section, cell, layout, instructions, expressions,
                   processCount, variableCount, clockCount, clocks, variables, is,
                   iter, st, tr, cout, log>>

(* tracer.cpp:328-348: the text after the third colon, trimmed.            *)
RECURSIVE AfterColons(_, _)
AfterColons(s, cnt) ==
    IF cnt = 0 \/ s = <<>> THEN [cnt |-> cnt, s |-> s]
    ELSE AfterColons(Tail(s), IF Head(s) = ":" THEN cnt - 1 ELSE cnt)

RECURSIVE TrimLeft(_)
TrimLeft(s) ==
    IF s # <<>> /\ Head(s) \in SpaceChars THEN TrimLeft(Tail(s)) ELSE s

RECURSIVE TrimRight(_)
TrimRight(s) ==
    IF s # <<>> /\ s[Len(s)] \in SpaceChars
    THEN TrimRight(SubSeq(s, 1, Len(s) - 1)) ELSE s

(* Trim without the second loop of tracer.cpp:343-346.                     *)
TrimLeftOnly(s) == TrimLeft(s)

Trim(s) == TrimRight(TrimLeft(s))

(* tracer.cpp:322-349: one line of the expressions section.                *)
loadIF_expressions ==
    /\ pc = "records"
    /\ section = "expressions"
    /\ LET r == read(file) IN
       IF ~MoreRecords(r, section)
       THEN /\ EndOfRecords(r)
            /\ UNCHANGED <<what, expressions, src>>
       ELSE IF r.str.k # "expr" \/ AfterColons(r.str.text, 3).cnt # 0
       THEN /\ Throw("In expression section")
            /\ file' = r.file
            /\ UNCHANGED <<expressions, src>>
       ELSE LET index == r.str.n[1]
                s     == AfterColons(r.str.text, 3).s IN
            /\ file' = r.file
            /\ expressions' = (index :> Trim(s)) @@ expressions
            /\ src' = Append(src, Given(r.str, "record", TRUE))
            /\ UNCHANGED <<pc, what>>
    /\ UNCHANGED <<inputs, outcome, ub, section, cell, layout, instructions,
                   processes, edges, processCount, variableCount, clockCount,
                   clocks, variables, is, iter, st, tr, cout, log>>

(* tracer.cpp:580-582: main's handler.                                     *)
main_catch ==
    /\ pc = "catch"
    /\ outcome = "running"
    /\ outcome' = "caught"
    /\ pc' = "done"
    /\ UNCHANGED <<inputs, what, ub, file, section, cell, model, is, iter, st, tr,
                   cout, log, src>>

-----------------------------------------------------------------------------
(* The trace stream.                                                       *)

Tok(k, v) == [k |-> k, v |-> v]
I(v) == Tok("int", v)
SP   == Tok("sp", 0)
TAB  == Tok("tab", 0)
NL   == Tok("nl", 0)
SEMI == Tok("semi", 0)
DOT  == Tok("dot", 0)
X    == Tok("x", 0)

Stream(buf, fail) == [buf |-> buf, fail |-> fail]

(* What operator>> skips before a number.                                  *)
WhiteSpace == {"sp", "tab", "nl"}

RECURSIVE SkipWS(_)
SkipWS(b) == IF b # <<>> /\ Head(b).k \in WhiteSpace THEN SkipWS(Tail(b)) ELSE b

(* is >> int: nothing on a failed stream; else white space is skipped and  *)
(* a number read; anything else (the end included) sets failbit and        *)
(* leaves the offending character in the stream.                           *)
ReadInt(s) ==
    IF s.fail THEN [ok |-> FALSE, v |-> 0, s |-> s]
    ELSE LET b == SkipWS(s.buf) IN
         IF b # <<>> /\ Head(b).k = "int"
         THEN [ok |-> TRUE, v |-> Head(b).v, s |-> Stream(Tail(b), FALSE)]
         ELSE [ok |-> FALSE, v |-> 0, s |-> Stream(b, TRUE)]

(* for (auto& x : vector) file >> x, on n value-initialised elements.      *)
RECURSIVE ReadInts(_, _)
ReadInts(s, n) ==
    IF n = 0 THEN [vals |-> <<>>, s |-> s]
    ELSE LET r    == ReadInt(s)
             rest == ReadInts(r.s, n - 1) IN
         [vals |-> <<r.v>> \o rest.vals, s |-> rest.s]

RECURSIVE LineEnd(_, _)
LineEnd(b, k) == IF k > Len(b) \/ b[k].k = "nl" THEN k ELSE LineEnd(b, k + 1)

(* getline(is, str): the characters up to the line break, which is taken   *)
(* from the stream and not stored; fails on a failed or exhausted stream.  *)
getline(s) ==
    IF s.fail \/ s.buf = <<>>
    THEN [ok |-> FALSE, str |-> <<>>, s |-> Stream(s.buf, TRUE)]
    ELSE LET e == LineEnd(s.buf, 1) IN
         [ok |-> TRUE, str |-> SubSeq(s.buf, 1, e - 1),
          s |-> Stream(SubSeq(s.buf, e + 1, Len(s.buf)), FALSE)]

AllSpace(str) == \A k \in 1..Len(str) : str[k].k \in {"sp", "tab"}

(* read_dot without the comparison of tracer.cpp:170: any line passes.     *)
ReadAnyLine(s) ==
    LET l1 == getline(s)
        l2 == getline(l1.s) IN
    [ok |-> l1.ok, s |-> IF AllSpace(l1.str) THEN l2.s ELSE l1.s]

(* tracer.cpp:164-176.  read_dot: ok is FALSE where the source prints      *)
(* "Expecting a line with '.'" and ends the process.                       *)
read_dot(s) ==
    LET l1  == getline(s)
        l2  == getline(l1.s)
        str == IF AllSpace(l1.str) /\ l2.ok THEN l2.str ELSE l1.str
        s2  == IF AllSpace(l1.str) THEN l2.s ELSE l1.s IN
    [ok |-> str = <<DOT>>, s |-> s2]

(* assert(false) with assertions compiled in, exit(EXIT_FAILURE) without.  *)
ReadDotFailure == {"abort", "exit"}

peek(s) == IF s.fail \/ s.buf = <<>> THEN "eof" ELSE Head(s.buf).k

(* is.get() on a character that is no part of a number.                    *)
get(s) ==
    IF s.fail \/ s.buf = <<>> THEN [c |-> "eof", s |-> Stream(s.buf, TRUE)]
    ELSE [c |-> Head(s.buf).k, s |-> Stream(Tail(s.buf), FALSE)]

(* tracer.cpp:178-183.                                                     *)
RECURSIVE skip_spaces(_)
skip_spaces(s) == IF peek(s) = "sp" THEN skip_spaces(get(s).s) ELSE s

clear(s) == Stream(s.buf, FALSE)

NotOpen == Stream(<<>>, TRUE)

-----------------------------------------------------------------------------
(* tracer.cpp:359-369.  bound_t, infinity, zero.                           *)

INT32_MAX == 2147483647

bound_t(value, strict) == [value |-> value, strict |-> strict]

infinity == bound_t(INT32_MAX \div 2, TRUE)

zero == bound_t(0, FALSE)

(* DecodeBound with bnd / 2, which rounds towards zero, for bnd >> 1.      *)
DecodeBoundTruncating(bnd) ==
    bound_t(IF bnd >= 0 THEN bnd \div 2 ELSE (bnd + 1) \div 2, bnd % 2 # 0)

(* tracer.cpp:418: {bnd >> 1, (bnd & 1) != 0}.  bnd is a 32-bit int, so    *)
(* bnd >> 1 fits the 31-bit field.                                         *)
DecodeBound(bnd) == bound_t(bnd \div 2, bnd % 2 # 0)

(* tracer.cpp:386, 390: the cell of (i, j) in the flat vector.             *)
Flat(i, j) == i * clockCount + j

InDbm(i, j) == 0 <= Flat(i, j) /\ Flat(i, j) < clockCount * clockCount

set_bound(dbm, i, j, bound) == [dbm EXCEPT ![Flat(i, j) + 1] = bound]

get_bound(dbm, i, j) == dbm[Flat(i, j) + 1]

(* tracer.cpp:418: one sparse bound.                                       *)
ApplyTriple(dbm, i, j, bnd) == set_bound(dbm, i, j, DecodeBound(bnd))

(* SeedFrom with row and column swapped: column 0 and the diagonal.        *)
RECURSIVE SeedColumnFrom(_, _)
SeedColumnFrom(dbm, i) ==
    IF i >= clockCount THEN dbm
    ELSE SeedColumnFrom(set_bound(set_bound(dbm, i, 0, zero), i, i, zero), i + 1)

(* tracer.cpp:398-405.  State::State().                                    *)
RECURSIVE SeedFrom(_, _)
SeedFrom(dbm, i) ==
    IF i >= clockCount THEN dbm
    ELSE SeedFrom(set_bound(set_bound(dbm, 0, i, zero), i, i, zero), i + 1)

StateDefault ==
    [locations |-> [p \in 1..processCount |-> 0],
     integers  |-> [v \in 1..variableCount |-> 0],
     dbm       |-> SeedFrom([c \in 1..(clockCount * clockCount) |-> infinity], 0),
     given     |-> <<>>,
     it        |-> iter]

NoState == [locations |-> <<>>, integers |-> <<>>, dbm |-> <<>>, given |-> <<>>, it |-> 0]

NoTransition == [edges |-> <<>>, given |-> <<>>, it |-> 0]

Exit(o) ==
    /\ outcome' = o
    /\ pc' = "done"

-----------------------------------------------------------------------------
(* tracer.cpp:398-427.  State::State(std::istream&), in four steps.        *)

(* The delegated State(): sized vectors and the seeded matrix.             *)
State_default ==
    /\ pc = "State"
    /\ outcome = "running"
    /\ st' = StateDefault
    /\ pc' = "State_locations"
    /\ UNCHANGED <<inputs, outcome, what, ub, file, section, cell, model, is, iter,
                   tr, cout, log, src>>

(* tracer.cpp:409-412: the location vector and its dot.                    *)
State_locations ==
    /\ pc = "State_locations"
    /\ LET r == ReadInts(is, processCount)
           d == read_dot(r.s) IN
       /\ is' = d.s
       /\ st' = [st EXCEPT !.locations = r.vals]
       /\ IF d.ok
          THEN /\ pc' = "State_dbm"
               /\ UNCHANGED outcome
          ELSE \E o \in ReadDotFailure : Exit(o)
    /\ UNCHANGED <<inputs, what, ub, file, section, cell, model, iter, tr, cout,
                   log, src>>

(* tracer.cpp:414-421: one turn of the DBM loop, or its end: the failed    *)
(* read is cleared and the list's own dot is read.                         *)
State_dbm ==
    /\ pc = "State_dbm"
    /\ LET ri == ReadInt(is)
           rj == ReadInt(ri.s)
           rb == ReadInt(rj.s) IN
       IF rb.ok
       THEN LET d == read_dot(rb.s)
                i == ri.v
                j == rj.v IN
            /\ is' = d.s
            /\ IF ~d.ok
               THEN /\ \E o \in ReadDotFailure : Exit(o)
                    /\ UNCHANGED <<st, ub>>
               ELSE IF InDbm(i, j)
               THEN /\ st' = [st EXCEPT !.dbm = ApplyTriple(@, i, j, rb.v),
                                        !.given = Append(@, <<i, j, rb.v>>)]
                    /\ UNCHANGED <<pc, outcome, ub>>
               ELSE \E o \in UBOutcomes :
                    /\ ub' = TRUE
                    /\ st' = [st EXCEPT !.given = Append(@, <<i, j, rb.v>>)]
                    /\ IF o = "crash" THEN Exit("crash") ELSE UNCHANGED <<pc, outcome>>
       ELSE LET d == read_dot(clear(rb.s)) IN
            /\ is' = d.s
            /\ UNCHANGED <<st, ub>>
            /\ IF d.ok
               THEN /\ pc' = "State_integers"
                    /\ UNCHANGED outcome
               ELSE \E o \in ReadDotFailure : Exit(o)
    /\ UNCHANGED <<inputs, what, file, section, cell, model, iter, tr, cout, log, src>>

(* loadTrace printing every state as soon as it is read.                   *)
PrintStateFirst(k) == "print_state"

(* tracer.cpp:531 and 543-547: where loadTrace goes on after State{is}:    *)
(* the initial state is printed; in the loop the Transition is read next.  *)
AfterState(k) == IF k = 0 THEN "print_state" ELSE "Transition"

(* tracer.cpp:423-426: the variable vector and its dot.                    *)
State_integers ==
    /\ pc = "State_integers"
    /\ LET r == ReadInts(is, variableCount)
           d == read_dot(r.s) IN
       /\ is' = d.s
       /\ st' = [st EXCEPT !.integers = r.vals]
       /\ IF d.ok
          THEN /\ pc' = AfterState(iter)
               /\ tr' = IF iter = 0 THEN tr ELSE [NoTransition EXCEPT !.it = iter]
               /\ log' = Append(log, <<"read State", iter>>)
               /\ UNCHANGED outcome
          ELSE /\ \E o \in ReadDotFailure : Exit(o)
               /\ UNCHANGED <<tr, log>>
    /\ UNCHANGED <<inputs, what, ub, file, section, cell, model, iter, cout, src>>

-----------------------------------------------------------------------------
(* tracer.cpp:445-466.  Transition::Transition.                            *)

(* tracer.cpp:450-459: the select values up to the line break or ';';      *)
(* ok is FALSE where the source prints "Transition format error" and       *)
(* exits.                                                                  *)
RECURSIVE ReadSelect(_, _)
ReadSelect(s, select) ==
    IF peek(s) \in {"nl", "semi"} THEN [ok |-> TRUE, select |-> select, s |-> s]
    ELSE LET r == ReadInt(s) IN
         IF r.ok THEN ReadSelect(skip_spaces(r.s), Append(select, r.v))
         ELSE [ok |-> FALSE, select |-> select, s |-> r.s]

(* ReadEdge without the legacy decrement of tracer.cpp:460-461.            *)
ReadEdgeKeepsIndex(s, process, edge) ==
    LET sel == ReadSelect(skip_spaces(s), <<>>)
        g   == get(sel.s) IN
    [ok  |-> sel.ok,
     e   |-> [process |-> process, edge |-> edge, select |-> sel.select],
     end |-> g.c,
     s   |-> IF sel.ok THEN g.s ELSE sel.s]

(* tracer.cpp:449-462: one edge of the transition, after its process and   *)
(* edge numbers.                                                           *)
ReadEdge(s, process, edge) ==
    LET sel == ReadSelect(skip_spaces(s), <<>>)
        g   == get(sel.s) IN
    [ok  |-> sel.ok,
     e   |-> [process |-> process,
              edge    |-> IF g.c = "nl" THEN edge - 1 ELSE edge,
              select  |-> sel.select],
     end |-> g.c,
     s   |-> IF sel.ok THEN g.s ELSE sel.s]

Transition_read ==
    /\ pc = "Transition"
    /\ LET rp == ReadInt(is)
           re == ReadInt(rp.s) IN
       IF re.ok
       THEN LET r == ReadEdge(re.s, rp.v, re.v) IN
            /\ is' = r.s
            /\ UNCHANGED log
            /\ IF r.ok
               THEN /\ tr' = [tr EXCEPT !.edges = Append(@, r.e),
                                        !.given = Append(@, [process |-> rp.v,
                                                             edge |-> re.v,
                                                             select |-> r.e.select,
                                                             end |-> r.end])]
                    /\ UNCHANGED <<pc, outcome>>
               ELSE /\ Exit("exit")
                    /\ UNCHANGED tr
       ELSE LET d == read_dot(clear(re.s)) IN
            /\ is' = d.s
            /\ UNCHANGED tr
            /\ IF d.ok
               THEN /\ pc' = "print_transition"
                    /\ log' = Append(log, <<"read Transition", iter>>)
                    /\ UNCHANGED outcome
               ELSE /\ \E o \in ReadDotFailure : Exit(o)
                    /\ UNCHANGED log
    /\ UNCHANGED <<inputs, what, ub, file, section, cell, model, iter, st, cout, src>>

-----------------------------------------------------------------------------
(* tracer.cpp:471-497.  operator<<(std::ostream&, const State&).           *)

(* What is printed for a name read outside a vector.                       *)
Garbage == "<garbage>"

(* processes[p].locations[state.get_location(p)] and layout[idx] are read  *)
(* unchecked.                                                              *)
LocationInRange(state, p) ==
    /\ InVector(state.locations[p], processes[p].locations)
    /\ InVector(processes[p].locations[state.locations[p] + 1], layout)

StateInRange(state) == \A p \in 1..processCount : LocationInRange(state, p)

RECURSIVE PrintLocations(_, _)
PrintLocations(state, p) ==
    IF p > processCount THEN <<>>
    ELSE <<processes[p].name, ".",
           IF LocationInRange(state, p)
           THEN layout[processes[p].locations[state.locations[p] + 1] + 1].name
           ELSE Garbage,
           " ">> \o PrintLocations(state, p + 1)

RECURSIVE PrintVariables(_, _)
PrintVariables(state, v) ==
    IF v > variableCount THEN <<>>
    ELSE <<variables[v], "=", ToString(state.integers[v]), " ">>
         \o PrintVariables(state, v + 1)

PrintBound(state, i, j) ==
    LET bnd == get_bound(state.dbm, i, j) IN
    IF i # j /\ bnd.value # infinity.value
    THEN <<clocks[i + 1], "-", clocks[j + 1], IF bnd.strict THEN "<" ELSE "<=",
           ToString(bnd.value), " ">>
    ELSE <<>>

RECURSIVE PrintClocks(_, _)
PrintClocks(state, c) ==
    IF c >= clockCount * clockCount THEN <<>>
    ELSE PrintBound(state, c \div clockCount, c % clockCount)
         \o PrintClocks(state, c + 1)

PrintState(state) ==
    PrintLocations(state, 1) \o PrintVariables(state, 1) \o PrintClocks(state, 0)

(* tracer.cpp:503-525.  operator<<(std::ostream&, const Transition&).      *)

(* std::map::operator[]: the mapped text; an absent key is inserted with   *)
(* an empty text.                                                          *)
MapAt(map, key) == IF key \in DOMAIN map THEN map[key] ELSE <<>>

MapInsert(map, key) == IF key \in DOMAIN map THEN map ELSE (key :> <<>>) @@ map

EdgeInRange(edge) ==
    /\ InVector(edge.process, processes)
    /\ InVector(edge.edge, processes[edge.process + 1].edges)
    /\ LET eid == processes[edge.process + 1].edges[edge.edge + 1] IN
       /\ InVector(eid, edges)
       /\ InVector(edges[eid + 1].source, layout)
       /\ InVector(edges[eid + 1].target, layout)

TransitionInRange(t) == \A k \in 1..Len(t.edges) : EdgeInRange(t.edges[k])

RECURSIVE PrintSelect(_, _)
PrintSelect(select, k) ==
    IF k > Len(select) THEN <<"]">>
    ELSE <<",", ToString(select[k])>> \o PrintSelect(select, k + 1)

(* tracer.cpp:506-521: one edge; map is the expression table as the edges  *)
(* before it left it.                                                      *)
PrintEdge(edge, map) ==
    IF ~EdgeInRange(edge)
    THEN [out |-> <<Garbage, " ">>, map |-> map]
    ELSE
    LET name   == processes[edge.process + 1].name
        eid    == processes[edge.process + 1].edges[edge.edge + 1]
        src_   == edges[eid + 1].source
        dst    == edges[eid + 1].target
        guard  == edges[eid + 1].guard
        sync   == edges[eid + 1].sync
        update == edges[eid + 1].update
        m1     == MapInsert(map, guard)
        m2     == MapInsert(m1, sync)
        m3     == MapInsert(m2, update) IN
    [out |-> <<name, ".", layout[src_ + 1].name, " -> ", name, ".",
               layout[dst + 1].name>>
             \o (IF edge.select = <<>> THEN <<>>
                 ELSE <<" [", ToString(edge.select[1])>> \o PrintSelect(edge.select, 2))
             \o <<" {">> \o MapAt(m1, guard) \o <<"; ">> \o MapAt(m2, sync)
             \o <<"; ">> \o MapAt(m3, update) \o <<";} ">>,
     map |-> m3]

RECURSIVE PrintTransition(_, _, _)
PrintTransition(t, k, map) ==
    IF k > Len(t.edges) THEN [out |-> <<>>, map |-> map]
    ELSE LET e    == PrintEdge(t.edges[k], map)
             rest == PrintTransition(t, k + 1, e.map) IN
         [out |-> e.out \o rest.out, map |-> rest.map]

-----------------------------------------------------------------------------
(* tracer.cpp:528-549.  loadTrace.                                         *)

(* tracer.cpp:547: cout << "\nTransition: " << transition << endl.         *)
print_transition ==
    /\ pc = "print_transition"
    /\ LET r == PrintTransition(tr, 1, expressions) IN
       IF TransitionInRange(tr)
       THEN /\ cout' = cout \o <<"\nTransition: ">> \o r.out \o <<"\n">>
            /\ expressions' = r.map
            /\ log' = Append(log, <<"print Transition", tr.it>>)
            /\ pc' = "print_state"
            /\ UNCHANGED <<outcome, ub>>
       ELSE \E o \in UBOutcomes :
            /\ ub' = TRUE
            /\ IF o = "crash"
               THEN /\ Exit("crash")
                    /\ UNCHANGED <<cout, expressions, log>>
               ELSE /\ cout' = cout \o <<"\nTransition: ">> \o r.out \o <<"\n">>
                    /\ expressions' = r.map
                    /\ log' = Append(log, <<"print Transition", tr.it>>)
                    /\ pc' = "print_state"
                    /\ UNCHANGED outcome
    /\ UNCHANGED <<inputs, what, file, section, cell, layout, instructions,
                   processes, edges, processCount, variableCount, clockCount, clocks,
                   variables, is, iter, st, tr, src>>

(* tracer.cpp:531 and 547: cout << "State: " << state << endl.             *)
print_state ==
    /\ pc = "print_state"
    /\ LET text == <<IF iter = 0 THEN "State: " ELSE "\nState: ">>
                   \o PrintState(st) \o <<"\n">> IN
       IF StateInRange(st)
       THEN /\ cout' = cout \o text
            /\ log' = Append(log, <<"print State", st.it>>)
            /\ pc' = "loop"
            /\ UNCHANGED <<outcome, ub>>
       ELSE \E o \in UBOutcomes :
            /\ ub' = TRUE
            /\ IF o = "crash"
               THEN /\ Exit("crash")
                    /\ UNCHANGED <<cout, log>>
               ELSE /\ cout' = cout \o text
                    /\ log' = Append(log, <<"print State", st.it>>)
                    /\ pc' = "loop"
                    /\ UNCHANGED outcome
    /\ UNCHANGED <<inputs, what, file, section, cell, model, is, iter, st, tr, src>>

(* tracer.cpp:532-544: the head of the loop; main returns after the dot.   *)
loadTrace_loop ==
    /\ pc = "loop"
    /\ LET s == skip_spaces(is) IN
       IF peek(s) = "dot"
       THEN /\ is' = get(s).s
            /\ outcome' = "returned"
            /\ pc' = "done"
            /\ UNCHANGED iter
       ELSE /\ is' = s
            /\ iter' = iter + 1
            /\ pc' = "State"
            /\ UNCHANGED outcome
    /\ UNCHANGED <<inputs, what, ub, file, section, cell, model, st, tr, cout, log,
                   src>>

-----------------------------------------------------------------------------
(* The input files.                                                        *)

RECURSIVE Concat(_)
Concat(ss) == IF ss = <<>> THEN <<>> ELSE Head(ss) \o Concat(Tail(ss))

(* Sequences over S of length n, and of length at most n.                  *)
RECURSIVE SeqsOfLen(_, _)
SeqsOfLen(S, n) ==
    IF n = 0 THEN {<<>>}
    ELSE {Append(q, x) : q \in SeqsOfLen(S, n - 1), x \in S}

SeqsUpTo(S, n) == UNION {SeqsOfLen(S, k) : k \in 0..n}

(* A model file of the six sections, each closed by a blank line.          *)
ModelFile(lay, ins, procs, locs, edgs, exprs) ==
    <<Header("layout")>> \o lay \o <<Blank, Header("instructions")>> \o ins
    \o <<Blank, Header("processes")>> \o procs
    \o <<Blank, Header("locations")>> \o locs
    \o <<Blank, Header("edges")>> \o edgs
    \o <<Blank, Header("expressions")>> \o exprs

(* Scenario A of the specification, with a reference clock, a variable    *)
(* and a second edge.                                                      *)
BaseLayout ==
    <<ClockLine(0, 0, "t0"), ClockLine(1, 1, "x"), VarLine(2, 0, 10, 0, 0, "i"),
      LocationLine(3, "location", "L0"), LocationLine(4, "committed", "L1")>>
BaseInstructions == <<InstrLine(0, <<1, 2>>), TabLine, InstrLine(2, <<3>>)>>
BaseProcesses == <<ProcessLine(0, 0, "P")>>
BaseLocations == <<LocRecLine(3, 0, -1), LocRecLine(4, 0, 5)>>
BaseEdges == <<EdgeLine(0, 3, 4, 3, -1, -1), EdgeLine(0, 4, 3, 7, -1, 5)>>
BaseExpressions ==
    <<ExprLine(3, <<":", "g", ":", ":", " ", "x", ">", "1", " ">>),
      ExprLine(5, <<":", ":", ":", "i", "=", "0">>)>>

BaseFile ==
    ModelFile(BaseLayout, BaseInstructions, BaseProcesses, BaseLocations, BaseEdges,
              BaseExpressions)

(* A file with one line replaced, one line dropped, or cut short.          *)
ReplaceLine(f, k, l) == [f EXCEPT ![k] = l]
DropLine(f, k) == SubSeq(f, 1, k - 1) \o SubSeq(f, k + 1, Len(f))
CutAt(f, k) == SubSeq(f, 1, k)

(* Text of the trace file.                                                 *)
RECURSIVE Numbers(_)
Numbers(vals) ==
    IF vals = <<>> THEN <<>>
    ELSE IF Len(vals) = 1 THEN <<I(vals[1])>>
    ELSE <<I(vals[1]), SP>> \o Numbers(Tail(vals))

RECURSIVE TriplesText(_)
TriplesText(ts) ==
    IF ts = <<>> THEN <<>>
    ELSE Numbers(Head(ts)) \o <<NL, DOT, NL>> \o TriplesText(Tail(ts))

(* A state: [locations, triples, integers].                                *)
StateText(s) ==
    Numbers(s.locations) \o <<NL, DOT, NL>> \o TriplesText(s.triples) \o <<DOT, NL>>
    \o Numbers(s.integers) \o <<NL, DOT, NL>>

(* An edge line: [process, edge, select, end], end "semi" (" ;") or        *)
(* "semi0" (";") in the current format and "nl" or "spnl" (a space, then   *)
(* the line break) in the legacy one.                                      *)
EdgeText(e) ==
    Numbers(<<e.process, e.edge>> \o e.select)
    \o CASE e.end = "semi"  -> <<SP, SEMI, NL>>
          [] e.end = "semi0" -> <<SEMI, NL>>
          [] e.end = "nl"    -> <<NL>>
          [] e.end = "spnl"  -> <<SP, NL>>

RECURSIVE EdgesText(_)
EdgesText(es) == IF es = <<>> THEN <<>> ELSE EdgeText(Head(es)) \o EdgesText(Tail(es))

TransitionText(es) == EdgesText(es) \o <<DOT, NL>>

RECURSIVE StepsText(_)
StepsText(steps) ==
    IF steps = <<>> THEN <<>>
    ELSE StateText(Head(steps).state) \o TransitionText(Head(steps).transition)
         \o StepsText(Tail(steps))

TraceText(initial, steps) == StateText(initial) \o StepsText(steps) \o <<DOT, NL>>

GivenState(locs, triples, ints) ==
    [locations |-> locs, triples |-> triples, integers |-> ints]
GivenEdge(p, e, select, end) ==
    [process |-> p, edge |-> e, select |-> select, end |-> end]
GivenStep(state, transition) == [state |-> state, transition |-> transition]

-----------------------------------------------------------------------------
(* The bounds of the input families.                                       *)

MaxSteps == 2       \* steps of a trace
MaxEdges == 2       \* edge lines of a transition
MaxSelect == 2      \* select values of an edge line
MaxTriples == 2     \* sparse bounds of a state
MaxCells == 3       \* lines of a layout section

(* Family "main": the base file, the base file with one line replaced,     *)
(* dropped or the rest cut off, and with other records in one section.     *)
OddLines == {Header("foo"), Header("edges"), Junk, Comment, Blank, Indented, TabLine}

LocationVariants ==
    {<<LocRecLine(0, 0, -1)>>, <<LocRecLine(2, 0, -1)>>, <<LocRecLine(9, 0, -1)>>,
     <<LocRecLine(-1, 0, -1)>>, <<LocRecLine(3, 1, -1)>>, <<LocRecLine(3, -1, -1)>>,
     <<LocRecLine(4, 0, -1), LocRecLine(3, 0, -1)>>, <<LocRecLine(3, 0, -1)>>}

EdgeVariants ==
    {<<EdgeLine(1, 3, 4, 3, -1, -1)>>, <<EdgeLine(-1, 3, 4, 3, -1, -1)>>,
     <<EdgeLine(0, 3, 9, 3, 3, 3)>>, <<EdgeLine(0, 4, 4, 7, 7, 8)>>,
     <<EdgeLine(0, 3, 4, 5, 3, 5), EdgeLine(0, 4, 3, -1, -1, -1)>>}

ExpressionVariants ==
    {<<>>,
     <<ExprLine(3, <<":", ":", "x">>)>>,
     <<ExprLine(3, <<":", ":", ":", " ", "\t">>), ExprLine(7, <<":", ":", ":">>)>>,
     <<ExprLine(3, <<":", ":", ":", "a", " ", ":", "b">>),
       ExprLine(3, <<":", ":", ":", " ", "c", " ", " ">>)>>,
     <<ExprLine(-1, <<":", ":", ":", "t", "a", "u">>),
       ExprLine(7, <<"a", ":", "b", ":", "c", ":", "\t", "y", "<", "2">>)>>}

MainFiles ==
    {BaseFile}
    \cup {ReplaceLine(BaseFile, k, l) : k \in 1..Len(BaseFile), l \in OddLines}
    \cup {DropLine(BaseFile, k) : k \in 1..Len(BaseFile)}
    \cup {CutAt(BaseFile, k) : k \in 0..Len(BaseFile)}
    \cup {ModelFile(BaseLayout, BaseInstructions, BaseProcesses, l, BaseEdges,
                    BaseExpressions) : l \in LocationVariants}
    \cup {ModelFile(BaseLayout, BaseInstructions, BaseProcesses, BaseLocations, e,
                    BaseExpressions) : e \in EdgeVariants}
    \cup {ModelFile(BaseLayout, BaseInstructions, BaseProcesses, BaseLocations,
                    BaseEdges, x) : x \in ExpressionVariants}

(* Traces of family "main" for a model of np processes and nv variables:   *)
(* at most MaxSteps steps, in the current and in the legacy format.        *)
MainTransitions ==
    {<<GivenEdge(0, 0, <<>>, "semi")>>,
     <<GivenEdge(0, 2, <<>>, "nl")>>,
     <<GivenEdge(0, 1, <<4, 5>>, "semi"), GivenEdge(0, 0, <<>>, "semi")>>,
     <<GivenEdge(0, 0, <<>>, "nl")>>}

Zeros(n) == [k \in 1..n |-> 0]
Ones(n) == [k \in 1..n |-> 1]
Sevens(n) == [k \in 1..n |-> 7]

CommonSteps(np, nv) ==
    {GivenStep(GivenState(Ones(np), <<>>, Sevens(nv)), <<GivenEdge(0, 0, <<>>, "semi")>>),
     GivenStep(GivenState(Zeros(np), <<>>, Sevens(nv)), <<GivenEdge(0, 2, <<>>, "nl")>>)}

MainSteps(np, nv) ==
    {GivenStep(GivenState(Ones(np), <<>>, Sevens(nv)), t) : t \in MainTransitions}
    \cup {GivenStep(GivenState(l, <<<<1, 0, 21>>>>, Sevens(nv)),
                    <<GivenEdge(0, 1, <<>>, "semi")>>) : l \in {Zeros(np), Ones(np)}}

StepsUpTo(common, last, n) ==
    {<<>>} \cup {Append(q, x) : q \in SeqsUpTo(common, n - 1), x \in last}

MainTraces(np, nv) ==
    {TraceText(GivenState(Zeros(np), <<>>, [v \in 1..nv |-> 3]), steps) :
        steps \in StepsUpTo(CommonSteps(np, nv), MainSteps(np, nv), MaxSteps)}

(* Family "transition": the base model, and traces of one step whose       *)
(* transition ends with any edge line of at most MaxSelect select values,  *)
(* in either format; and a trace with one token replaced or the rest cut   *)
(* off.                                                                    *)
SelectValue(k) == IF k % 2 = 1 THEN 3 + k ELSE 0 - (3 + k)

EdgeLines ==
    {GivenEdge(p, e, [k \in 1..n |-> SelectValue(k)], end) :
        p \in 0..1, e \in 0..2, n \in 0..MaxSelect,
        end \in {"semi", "semi0", "nl", "spnl"}}

CommonEdgeLines == {GivenEdge(0, 1, <<>>, "semi"), GivenEdge(0, 2, <<9>>, "nl")}

FooFile == ReplaceLine(BaseFile, 1, Header("foo"))

BaseInitial == GivenState(<<0>>, <<>>, <<3>>)
BaseTarget == GivenState(<<1>>, <<<<1, 0, 21>>>>, <<7>>)

BaseTrace ==
    TraceText(BaseInitial,
              <<GivenStep(BaseTarget, <<GivenEdge(0, 0, <<4>>, "semi"),
                                        GivenEdge(0, 2, <<>>, "nl")>>)>>)

ReplaceToken(t, k, x) == [t EXCEPT ![k] = x]

BrokenTraces ==
    {ReplaceToken(BaseTrace, k, x) : k \in 1..Len(BaseTrace), x \in {X, TAB, SP}}
    \cup {SubSeq(BaseTrace, 1, k) : k \in 0..Len(BaseTrace)}

TransitionTraces ==
    {TraceText(BaseInitial, <<GivenStep(BaseTarget, Append(q, e))>>) :
        q \in SeqsUpTo(CommonEdgeLines, MaxEdges - 1), e \in EdgeLines}
    \cup BrokenTraces

(* Family "state": models of 0..MaxClocks clocks, and traces of one state  *)
(* with at most MaxTriples sparse bounds, the last one any of Triples:     *)
(* every cell, cells outside the matrix, and the encodings of the values   *)
(* of BoundValues.                                                         *)
MaxClocks == 3

ClockName(k) ==
    CASE k = 0 -> "t0" [] k = 1 -> "x" [] k = 2 -> "y" [] k = 3 -> "z" [] OTHER -> "c"

ClockFile(nc) ==
    ModelFile([k \in 1..nc |-> ClockLine(k - 1, k - 1, ClockName(k - 1))]
              \o <<VarLine(nc, 0, 10, 0, 0, "i"), LocationLine(nc + 1, "location", "L0"),
                   LocationLine(nc + 2, "urgent", "L1")>>,
              <<>>, BaseProcesses,
              <<LocRecLine(nc + 1, 0, -1), LocRecLine(nc + 2, 0, -1)>>,
              <<EdgeLine(0, nc + 1, nc + 2, 3, -1, 5)>>, BaseExpressions)

StateFiles == {ClockFile(nc) : nc \in 0..MaxClocks} \cup {FooFile}

Encode(value, strict) == value * 2 + (IF strict THEN 1 ELSE 0)

BoundValues == {0 - 1073741824, -3, -2, -1, 0, 1, 2, 10, 1073741823}

Triples(nc) ==
    {<<i, j, Encode(10, TRUE)>> : i \in 0..(nc - 1), j \in 0..(nc - 1)}
    \cup {<<-1, nc, 21>>, <<0, nc, 21>>, <<nc, 0, 21>>, <<nc, nc, 21>>}
    \cup {<<1, 0, Encode(v, b)>> : v \in BoundValues, b \in BOOLEAN}

CommonTriples(nc) ==
    {<<2, 1, Encode(10, TRUE)>>, <<1, 0, Encode(10, TRUE)>>, <<1, 2, Encode(-3, FALSE)>>,
     <<1, 0, Encode(0 - 1073741824, TRUE)>>, <<0, nc, 21>>}

StateTraces(nc) ==
    {TraceText(GivenState(<<0>>, t, <<3>>), <<>>) :
        t \in StepsUpTo(CommonTriples(nc), Triples(nc), MaxTriples)}
    \cup {TraceText(BaseInitial,
                    <<GivenStep(GivenState(<<1>>, <<>>, <<7>>),
                                <<GivenEdge(0, 0, <<>>, "semi")>>)>>)}

(* Family "layout": every layout section of at most MaxCells lines.        *)
LayoutLines ==
    {ClockLine(0, nr, s) : nr \in 0..1, s \in {"x", "y"}}
    \cup {VarLine(0, 0, 10, 0, nr, "i") : nr \in 0..1}
    \cup {MetaLine(0, 0, 10, 0, 1, "m"), ConstLine(0, 42), CostLine(0),
          LocationLine(0, "location", "L0")}

LayoutFiles ==
    {ModelFile(l, <<>>, <<>>, <<>>, <<>>, <<>>) : l \in SeqsUpTo(LayoutLines, MaxCells)}
    \cup {BaseFile, FooFile}

(* Family "process": two processes P and Q whose locations and edges       *)
(* records are interleaved in several file orders, and traces of at most   *)
(* MaxSteps steps over both processes, in the current and in the legacy    *)
(* format.                                                                 *)
ProcessLayout ==
    <<ClockLine(0, 0, "t0"), VarLine(1, 0, 10, 0, 0, "i"),
      LocationLine(2, "location", "A0"), LocationLine(3, "urgent", "A1"),
      LocationLine(4, "location", "B0"), LocationLine(5, "committed", "B1")>>

TwoProcesses == <<ProcessLine(0, 0, "P"), ProcessLine(1, 0, "Q")>>

LocationOrders ==
    {<<LocRecLine(2, 0, -1), LocRecLine(3, 0, -1), LocRecLine(4, 1, -1), LocRecLine(5, 1, -1)>>,
     <<LocRecLine(4, 1, -1), LocRecLine(2, 0, -1), LocRecLine(5, 1, -1), LocRecLine(3, 0, -1)>>,
     <<LocRecLine(3, 0, -1), LocRecLine(5, 1, 3), LocRecLine(2, 0, -1), LocRecLine(4, 1, -1)>>}

EdgeOrders ==
    {<<EdgeLine(1, 4, 5, 3, -1, -1), EdgeLine(0, 2, 3, -1, -1, 5),
       EdgeLine(1, 5, 4, 7, -1, -1), EdgeLine(0, 3, 2, 3, -1, 5)>>,
     <<EdgeLine(0, 3, 2, 3, -1, 5), EdgeLine(0, 2, 3, -1, -1, 5),
       EdgeLine(1, 4, 5, 3, -1, -1)>>}

ProcessFiles ==
    {ModelFile(ProcessLayout, BaseInstructions, TwoProcesses, l, e, BaseExpressions) :
        l \in LocationOrders, e \in EdgeOrders}
    \cup {FooFile}

ProcessTransitions ==
    {<<GivenEdge(p, e, <<>>, "semi")>> : p \in 0..1, e \in 0..2}
    \cup {<<GivenEdge(p, e, <<>>, "nl")>> : p \in 0..1, e \in 0..2}
    \cup {<<GivenEdge(0, 1, <<4>>, "semi"), GivenEdge(1, 0, <<>>, "semi")>>,
          <<GivenEdge(1, 2, <<>>, "nl"), GivenEdge(0, 1, <<>>, "nl")>>}

ProcessStates == {GivenState(<<a, b>>, <<>>, <<7>>) : a \in 0..1, b \in 0..1}

ProcessTraces ==
    {TraceText(GivenState(<<0, 0>>, <<>>, <<3>>), steps) :
        steps \in StepsUpTo({GivenStep(GivenState(<<1, 0>>, <<>>, <<7>>),
                                       <<GivenEdge(0, 0, <<>>, "semi")>>)},
                            {GivenStep(x, t) : x \in ProcessStates,
                                               t \in ProcessTransitions},
                            MaxSteps)}

ModelFiles(family) ==
    CASE family = "main" -> MainFiles
      [] family = "process" -> ProcessFiles
      [] family = "transition" -> {BaseFile, FooFile}
      [] family = "state" -> StateFiles
      [] family = "layout" -> LayoutFiles

TraceFiles(family) ==
    CASE family = "main" -> MainTraces(processCount, variableCount)
      [] family = "process" -> ProcessTraces
      [] family = "transition" -> TransitionTraces
      [] family = "state" -> StateTraces(clockCount)
      [] family = "layout" ->
           IF processCount = 0
           THEN {TraceText(GivenState(<<>>, <<>>, Sevens(variableCount)), <<>>)}
           ELSE {BaseTrace}

-----------------------------------------------------------------------------
(* tracer.cpp:551-583.  main.                                              *)

InitFamily(family) ==
    /\ inputs = family
    /\ file \in ModelFiles(family)
    /\ pc = "loadIF"
    /\ outcome = "running"
    /\ what = ""
    /\ ub = FALSE
    /\ section = ""
    /\ cell = NoCell
    /\ layout = <<>>
    /\ instructions = <<>>
    /\ processes = <<>>
    /\ edges = <<>>
    /\ expressions = <<>>
    /\ processCount = 0
    /\ variableCount = 0
    /\ clockCount = 0
    /\ clocks = <<>>
    /\ variables = <<>>
    /\ is = NotOpen
    /\ iter = 0
    /\ st = NoState
    /\ tr = NoTransition
    /\ cout = <<>>
    /\ log = <<>>
    /\ src = <<>>

Init == InitFamily("main")

(* tracer.cpp:573-578: the trace file is opened and loadTrace entered.     *)
main_loadTrace ==
    /\ pc = "loadTrace"
    /\ \E t \in TraceFiles(inputs) : is' = Stream(t, FALSE)
    /\ iter' = 0
    /\ pc' = "State"
    /\ UNCHANGED <<inputs, outcome, what, ub, file, section, cell, model, st, tr,
                   cout, log, src>>

Next ==
    \/ loadIF_section
    \/ loadIF_layout
    \/ loadIF_instructions
    \/ loadIF_processes
    \/ loadIF_locations
    \/ loadIF_edges
    \/ loadIF_expressions
    \/ main_catch
    \/ main_loadTrace
    \/ State_default
    \/ State_locations
    \/ State_dbm
    \/ State_integers
    \/ Transition_read
    \/ print_transition
    \/ print_state
    \/ loadTrace_loop

Spec == Init /\ [][Next]_vars

SpecTransition == InitFamily("transition") /\ [][Next]_vars

SpecState == InitFamily("state") /\ [][Next]_vars

SpecLayout == InitFamily("layout") /\ [][Next]_vars

SpecProcess == InitFamily("process") /\ [][Next]_vars

-----------------------------------------------------------------------------
(* The claims.                                                             *)

(* The edge instance that Transition::Transition reads from one line.      *)
DecodeEdgeLine(text) ==
    LET rp == ReadInt(Stream(text, FALSE))
        re == ReadInt(rp.s) IN
    ReadEdge(re.s, rp.v, re.v).e

(* C1: an edge line of process p and raw edge index e that ends with the   *)
(* line break and no ';' is decoded to the edge instance (process, edge    *)
(* index, select values) that the current-format line "p e-1 select ;" is  *)
(* decoded to; the index of a line that has the ';' is taken as it is.     *)
LegacyEquivalence ==
    \A k \in 1..Len(tr.edges) :
        LET g == tr.given[k] IN
        /\ g.end = "nl" =>
              tr.edges[k] = DecodeEdgeLine(EdgeText(
                                GivenEdge(g.process, g.edge - 1, g.select, "semi")))
        /\ g.end = "semi" =>
              tr.edges[k] = DecodeEdgeLine(EdgeText(
                                GivenEdge(g.process, g.edge, g.select, "semi")))
        /\ g.end = "semi" => tr.edges[k].edge = g.edge

(* Scenario B: the legacy line "0 1" has been decoded to edge index 0,     *)
(* after a legacy line with select values.                                 *)
LegacyWitness ==
    /\ Len(tr.edges) = 2
    /\ tr.given[1].end = "nl" /\ tr.given[1].select # <<>>
    /\ tr.given[2] = [process |-> 0, edge |-> 1, select |-> <<>>, end |-> "nl"]
    /\ tr.edges[2] = [process |-> 0, edge |-> 0, select |-> <<>>]

(* The matrix of st is in place, and the cells its sparse bounds wrote.    *)
Seeded == pc \in {"State_locations", "State_dbm", "State_integers"}

Clocks == 0..(clockCount - 1)

Written == {Flat(st.given[k][1], st.given[k][2]) : k \in 1..Len(st.given)}

Targeted == {<<st.given[k][1], st.given[k][2]>> : k \in 1..Len(st.given)}

Encoding(dbm) ==
    {<<i, j, Encode(get_bound(dbm, i, j).value, get_bound(dbm, i, j).strict)>> :
        <<i, j>> \in {c \in Clocks \X Clocks :
                        get_bound(dbm, c[1], c[2]) # get_bound(StateDefault.dbm, c[1], c[2])}}

Orders(S) == {q \in SeqsOfLen(S, Cardinality(S)) : {q[k] : k \in 1..Len(q)} = S}

RECURSIVE ApplyTriples(_, _)
ApplyTriples(dbm, ts) ==
    IF ts = <<>> THEN dbm
    ELSE ApplyTriples(ApplyTriple(dbm, Head(ts)[1], Head(ts)[2], Head(ts)[3]), Tail(ts))

LastWrite(k) ==
    \A m \in (k + 1)..Len(st.given) :
        Flat(st.given[m][1], st.given[m][2]) # Flat(st.given[k][1], st.given[k][2])

(* C10: a sparse bound whose number is value * 2 + strict, for a value of  *)
(* the signed 31-bit range, is decoded to (value, strict); and decoding    *)
(* the encoding of a decoded state's sparse bounds, in any order, gives    *)
(* the state's matrix again.                                               *)
BoundRoundTrip ==
    Seeded =>
        /\ \A k \in 1..Len(st.given) :
              InDbm(st.given[k][1], st.given[k][2]) /\ LastWrite(k) =>
                  \A v \in BoundValues, b \in BOOLEAN :
                      st.given[k][3] = Encode(v, b) =>
                          get_bound(st.dbm, st.given[k][1], st.given[k][2]) = bound_t(v, b)
        /\ \A q \in Orders(Encoding(st.dbm)) :
              ApplyTriples(StateDefault.dbm, q) = st.dbm

(* Two sparse bounds have been decoded, the last one the most negative     *)
(* strict bound.                                                           *)
BoundRoundTripWitness ==
    /\ pc = "State_integers"
    /\ clockCount = 3
    /\ ~ub
    /\ Len(st.given) = 2
    /\ st.given[1] = <<2, 1, Encode(10, TRUE)>>
    /\ st.given[2] = <<1, 0, Encode(0 - 1073741824, TRUE)>>
    /\ get_bound(st.dbm, 1, 0) = bound_t(0 - 1073741824, TRUE)
    /\ Cardinality(Encoding(st.dbm)) = 2

(* What loadTrace does n-th: the initial State is read and printed, then   *)
(* in iteration k a State and a Transition are read and the Transition and *)
(* the State are printed.                                                  *)
Expected(n) ==
    IF n <= 2 THEN <<IF n = 1 THEN "read State" ELSE "print State", 0>>
    ELSE LET k     == (n - 3) \div 4 + 1
             phase == (n - 3) % 4 IN
         <<CASE phase = 0 -> "read State"
             [] phase = 1 -> "read Transition"
             [] phase = 2 -> "print Transition"
             [] phase = 3 -> "print State", k>>

IsHeader(x) == x \in {"State: ", "\nTransition: ", "\nState: "}

Headers == SelectSeq(cout, IsHeader)

Printed == SelectSeq(log, LAMBDA e : e[1] \in {"print State", "print Transition"})

(* C3: loadTrace reads one initial State and prints it; in iteration k it  *)
(* reads one State and then one Transition, both of iteration k, and       *)
(* prints that Transition and then that State; the output has one header   *)
(* per printed object in that order, and loadTrace returns only between    *)
(* iterations.                                                             *)
SameIterationPairs ==
    /\ \A n \in 1..Len(log) : log[n] = Expected(n)
    /\ pc \in {"print_transition", "print_state"} /\ iter > 0 =>
          st.it = iter /\ tr.it = iter
    /\ Len(Headers) = Len(Printed)
    /\ \A m \in 1..Len(Headers) :
          Headers[m] = IF m = 1 THEN "State: "
                       ELSE IF m % 2 = 0 THEN "\nTransition: " ELSE "\nState: "
    /\ outcome = "returned" => Len(log) % 4 = 2 /\ Len(log) = 2 + 4 * iter

(* A trace of two steps has been read and printed to its end.              *)
SameIterationPairsWitness ==
    /\ outcome = "returned"
    /\ iter = 2
    /\ Len(log) = 10
    /\ Len(Headers) = 5
    /\ ~ub

(* The records of the model file that were read, in file order.            *)
Records(kinds) ==
    SelectSeq(src, LAMBDA g : g.as = "record" /\ g.line.k \in kinds)

(* C4 as claimed: once a locations record that names a cell outside the    *)
(* layout, a cell that is no Location, or a process outside the process    *)
(* list, or an edges record that names such a process, has been read, the  *)
(* load has failed with an error, and no such record is in the tables.     *)
InvalidReferenceRejected ==
    /\ (\E k \in 1..Len(src) : src[k].as = "record" /\ ~src[k].valid) =>
          /\ pc \in {"catch", "done"}
          /\ outcome \in {"running", "caught"}
          /\ what # ""
    /\ \A p \in 1..Len(processes) :
          \A n \in 1..Len(processes[p].locations) :
              /\ InVector(processes[p].locations[n], layout)
              /\ layout[processes[p].locations[n] + 1].type = "LOCATION"
    /\ \A e \in 1..Len(edges) : InVector(edges[e].process, processes)

(* The six section names of the format.                                    *)
KnownSection(line) ==
    /\ line.k = "header"
    /\ line.name \in {"layout", "instructions", "processes", "locations", "edges",
                      "expressions"}

(* C5: once a section line that is none of the six section names has been  *)
(* read, loadIF has thrown "Unknown section", which main catches; the      *)
(* trace file is never opened, no State or Transition is read and nothing  *)
(* is printed.                                                             *)
UnknownSectionNoOutput ==
    (\E k \in 1..Len(src) : src[k].as = "section" /\ ~KnownSection(src[k].line)) =>
        /\ what = "Unknown section"
        /\ pc \in {"catch", "done"}
        /\ outcome \in {"running", "caught"}
        /\ is = NotOpen
        /\ st = NoState /\ tr = NoTransition
        /\ log = <<>>
        /\ cout = <<>>

(* The section line foo after a loaded layout section: main has caught     *)
(* the exception.                                                          *)
UnknownSectionWitness ==
    /\ outcome = "caught"
    /\ what = "Unknown section"
    /\ \E k \in 2..Len(src) : src[k] = Given(Header("foo"), "section", TRUE)
    /\ layout # <<>>
    /\ cout = <<>>

(* C6 as claimed: printing a Transition or a State changes nothing of the  *)
(* model: cells, processes, edges, name lists and the expression table.    *)
RenderingIsPure ==
    [][(pc = "print_transition" \/ pc = "print_state") => UNCHANGED model]_vars

(* The text the file gives for an expression key: of the last expressions  *)
(* record with that key, what follows the third colon, without the white   *)
(* space at its ends; nothing if no record has the key.                    *)
Least(S) == CHOOSE x \in S : \A y \in S : x <= y
Greatest(S) == CHOOSE x \in S : \A y \in S : y <= x

ThirdColon(text) ==
    CHOOSE p \in 1..Len(text) :
        /\ text[p] = ":"
        /\ Cardinality({q \in 1..(p - 1) : text[q] = ":"}) = 2

Stripped(text) ==
    LET ink == {p \in 1..Len(text) : text[p] \notin SpaceChars} IN
    IF ink = {} THEN <<>> ELSE SubSeq(text, Least(ink), Greatest(ink))

GivenText(key) ==
    LET recs == {k \in 1..Len(src) :
                    /\ src[k].as = "record"
                    /\ src[k].line.k = "expr"
                    /\ src[k].line.n[1] = key} IN
    IF recs = {} THEN <<>>
    ELSE LET text == src[Greatest(recs)].line.text IN
         Stripped(SubSeq(text, ThirdColon(text) + 1, Len(text)))

BraceGroup(e) ==
    <<" {">> \o GivenText(e.guard) \o <<"; ">> \o GivenText(e.sync) \o <<"; ">>
    \o GivenText(e.update) \o <<";} ">>

ModelEdge(edge) == edges[processes[edge.process + 1].edges[edge.edge + 1] + 1]

(* The brace groups of a printed text, in order.                           *)
Groups(out) ==
    LET opens  == SelectSeq([p \in 1..Len(out) |-> p], LAMBDA p : out[p] = " {")
        closes == SelectSeq([p \in 1..Len(out) |-> p], LAMBDA p : out[p] = ";} ") IN
    IF Len(opens) # Len(closes) THEN <<>>
    ELSE [k \in 1..Len(opens) |-> SubSeq(out, opens[k], closes[k])]

(* C7: printing a Transition whose edges are edges of the model prints,    *)
(* for each edge, its guard, sync and update texts looked up by key        *)
(* between " {", "; ", "; " and ";} ": the trimmed text the file gives for *)
(* the key, and nothing for a key the file gives no text; the printing     *)
(* goes on to the State and ends neither the process nor loadTrace.        *)
RendersGivenTexts ==
    [][pc = "print_transition" /\ TransitionInRange(tr) =>
          /\ pc' = "print_state"
          /\ outcome' = "running"
          /\ Groups(SubSeq(cout', Len(cout) + 1, Len(cout')))
                = [k \in 1..Len(tr.edges) |-> BraceGroup(ModelEdge(tr.edges[k]))]
      ]_vars

(* The edge with guard 7, sync -1 and update 5 has been printed: the file  *)
(* gives no text for 7 and -1, and "i=0" for 5.                            *)
RendersGivenTextsWitness ==
    /\ pc = "print_state"
    /\ iter > 0
    /\ ~ub
    /\ Len(tr.edges) = 1
    /\ TransitionInRange(tr)
    /\ ModelEdge(tr.edges[1]).guard = 7
    /\ ModelEdge(tr.edges[1]).update = 5
    /\ GivenText(7) = <<>>
    /\ GivenText(5) = <<"i", "=", "0">>
    /\ Len(cout) > 8
    /\ SubSeq(cout, Len(cout) - 7, Len(cout))
          = <<" {", "; ", "; ", "i", "=", "0", ";} ", "\n">>

(* C8 as claimed: no failure of reading the model or the trace ends the    *)
(* process by exit or abort.                                               *)
NeverTerminatesItself == outcome \notin {"exit", "abort"}

ClockCells == SelectSeq(layout, LAMBDA c : c.type = "CLOCK")

VariableCells == SelectSeq(layout, LAMBDA c : c.type \in {"VAR", "META"})

(* C9 as claimed: the k-th clock cell of the layout has local index k      *)
(* (from 0) and its name is entry k of clocks; the k-th var or meta cell   *)
(* has local index k and its name is entry k of variables; and clockCount  *)
(* and variableCount are the lengths of the two lists.                     *)
DeclaredInOrder ==
    /\ clockCount = Len(clocks) /\ Len(ClockCells) = Len(clocks)
    /\ variableCount = Len(variables) /\ Len(VariableCells) = Len(variables)
    /\ \A k \in 1..Len(ClockCells) :
          ClockCells[k].name = clocks[k] /\ ClockCells[k].w[1] = k - 1
    /\ \A k \in 1..Len(VariableCells) :
          VariableCells[k].name = variables[k] /\ VariableCells[k].w[4] = k - 1

(* What the file gives for process p (from 0): the cell indices of the     *)
(* locations records whose owner is p, and the edges records whose owner   *)
(* is p with their positions (from 0) among all edges records, both in     *)
(* file order.                                                             *)
OwnedLocations(p) ==
    LET recs == SelectSeq(Records({"locrec"}), LAMBDA g : g.line.n[2] = p) IN
    [k \in 1..Len(recs) |-> recs[k].line.n[1]]

OwnedEdges(p) ==
    LET all == Records({"edge"}) IN
    SelectSeq([j \in 1..Len(all) |-> j - 1], LAMBDA j : all[j + 1].line.n[1] = p)

EdgeRecord(j) == Records({"edge"})[j + 1].line

Added == SubSeq(cout', Len(cout) + 1, Len(cout'))

Arrows(out) == SelectSeq([a \in 1..Len(out) |-> a], LAMBDA a : out[a] = " -> ")

ListsInFileOrder ==
    ~ub =>
        \A p \in 0..(Len(processes) - 1) :
            /\ processes[p + 1].locations = OwnedLocations(p)
            /\ processes[p + 1].edges = OwnedEdges(p)

PrintsOwnedLocations ==
    pc = "print_state" /\ ~ub /\ StateInRange(st) =>
        \A p \in 1..processCount :
            SubSeq(Added, 4 * p - 2, 4 * p + 1)
                = <<processes[p].name, ".",
                    layout[OwnedLocations(p - 1)[st.locations[p] + 1] + 1].name, " ">>

PrintsOwnedEdges ==
    pc = "print_transition" /\ ~ub /\ TransitionInRange(tr) =>
        /\ Len(Arrows(Added)) = Len(tr.edges)
        /\ \A k \in 1..Len(tr.edges) :
              LET e    == tr.edges[k]
                  rec  == EdgeRecord(OwnedEdges(e.process)[e.edge + 1])
                  name == processes[e.process + 1].name
                  a    == Arrows(Added)[k] IN
              SubSeq(Added, a - 3, a + 3)
                  = <<name, ".", layout[rec.n[2] + 1].name, " -> ",
                      name, ".", layout[rec.n[3] + 1].name>>

(* C11: the k-th entry of a process's location list is the cell index of   *)
(* the k-th locations record of the file whose owner is the process, and   *)
(* the k-th entry of its edge list is the position among all edges records *)
(* of the k-th edges record whose owner is the process; a State is printed *)
(* as processName.cellName of the record its local location index selects  *)
(* in that list, and an edge of a Transition as processName.sourceName ->  *)
(* processName.targetName of the record its local edge index selects.      *)
FileOrderLocalIndices ==
    []ListsInFileOrder /\ [][PrintsOwnedLocations /\ PrintsOwnedEdges]_vars

(* Interleaved records: P's location list is <<3, 2>> and Q's edge list    *)
(* <<0, 2>>, and edge 1 of Q, the record 1:5:4:7:-1:-1, has been printed.  *)
FileOrderWitness ==
    /\ pc = "print_state"
    /\ iter > 0
    /\ ~ub
    /\ Len(processes) = 2
    /\ processes[1].locations = <<3, 2>>
    /\ processes[2].edges = <<0, 2>>
    /\ tr.edges = <<[process |-> 1, edge |-> 1, select |-> <<>>]>>
    /\ Len(cout) > 12
    /\ SubSeq(cout, Len(cout) - 11, Len(cout))
          = <<"Q", ".", "B1", " -> ", "Q", ".", "B0", " {", "; ", "; ", ";} ", "\n">>

(* What a step took from the trace stream.                                 *)
Consumed == SubSeq(is.buf, 1, Len(is.buf) - Len(is'.buf))

Positions(text, kinds) == {p \in 1..Len(text) : text[p].k \in kinds}

IntsOf(text) ==
    LET ints == SelectSeq(text, LAMBDA t : t.k = "int") IN
    [k \in 1..Len(ints) |-> ints[k].v]

(* A text of numbers and white space, then one line with the dot: nothing  *)
(* else, and nothing after the dot but its line break.                     *)
EndsWithOneDot(text) ==
    /\ Cardinality(Positions(text, {"dot"})) = 1
    /\ Positions(text, {"int", "dot"} \cup WhiteSpace) = 1..Len(text)
    /\ \A d \in Positions(text, {"dot"}) :
          /\ \A p \in Positions(text, {"int"}) : p < d
          /\ d \in {Len(text), Len(text) - 1}
          /\ d = Len(text) - 1 => text[Len(text)].k = "nl"

StateStreamOrder ==
    /\ pc = "State_locations" /\ pc' # "done" =>
          /\ pc' = "State_dbm"
          /\ is.buf = Consumed \o is'.buf
          /\ EndsWithOneDot(Consumed)
          /\ IntsOf(Consumed) = st'.locations
          /\ Len(st'.locations) = processCount
          /\ st'.dbm = StateDefault.dbm /\ st'.given = <<>>
    /\ pc = "State_dbm" /\ pc' = "State_dbm" /\ is' # is =>
          /\ is.buf = Consumed \o is'.buf
          /\ EndsWithOneDot(Consumed)
          /\ st'.given = Append(st.given, IntsOf(Consumed))
          /\ Len(IntsOf(Consumed)) = 3
    /\ pc = "State_dbm" /\ pc' \notin {"State_dbm", "done"} =>
          /\ pc' = "State_integers"
          /\ is.buf = Consumed \o is'.buf
          /\ EndsWithOneDot(Consumed)
          /\ Len(IntsOf(Consumed)) < 3
          /\ st' = st
    /\ pc = "State_integers" /\ pc' # "done" =>
          /\ pc' \in {"print_state", "Transition"}
          /\ is.buf = Consumed \o is'.buf
          /\ EndsWithOneDot(Consumed)
          /\ IntsOf(Consumed) = st'.integers
          /\ Len(st'.integers) = variableCount
          /\ st'.dbm = st.dbm /\ st'.locations = st.locations

(* C12: State::State(std::istream&) takes from the stream, in this order:  *)
(* processCount location numbers and a dot line; sparse bounds of three    *)
(* numbers, each with its dot line, until a read finds no three numbers;   *)
(* one dot line for the list; variableCount numbers and a dot line.  With  *)
(* no sparse bound the matrix is the seeded one, and the variables are     *)
(* read from what follows the list's dot line.                             *)
DecodeStateOrder ==
    /\ [](pc \in {"State_dbm", "State_integers"} /\ st.given = <<>> =>
              st.dbm = StateDefault.dbm)
    /\ [][StateStreamOrder]_vars

(* The second state of the base trace has been read: one sparse bound      *)
(* between the location and the variable of the state.                     *)
DecodeStateWitness ==
    /\ pc = "Transition"
    /\ iter = 1
    /\ ~ub
    /\ st.locations = <<1>>
    /\ st.given = <<<<1, 0, 21>>>>
    /\ get_bound(st.dbm, 1, 0) = bound_t(10, TRUE)
    /\ st.integers = <<7>>

(* C13 as claimed: every sparse bound read into a State names a row and a  *)
(* column of the clockCount x clockCount matrix; every edge of a           *)
(* Transition about to be printed names a process and, after the legacy    *)
(* decrement, an entry of that process's edge list; and no access outside  *)
(* a vector happens.                                                       *)
IndicesInsideTables ==
    /\ \A k \in 1..Len(st.given) :
          /\ 0 <= st.given[k][1] /\ st.given[k][1] < clockCount
          /\ 0 <= st.given[k][2] /\ st.given[k][2] < clockCount
    /\ pc = "print_transition" =>
          \A k \in 1..Len(tr.edges) :
              /\ InVector(tr.edges[k].process, processes)
              /\ InVector(tr.edges[k].edge, processes[tr.edges[k].process + 1].edges)
    /\ ~ub

=============================================================================
